---------------------------- MODULE Spec2Model ----------------------------
(***************************************************************************)
(* A model of the GA4 dashboard (src/app.py) and of its Settings page      *)
(* (src/pages/1_..._Settings.py).                                          *)
(*                                                                         *)
(* Numbers.  The KPI values arrive as text and are parsed by float().  A   *)
(* float is held here as a whole number of HALVES (125.5 is 251): the      *)
(* texts of the model end in nothing or in ".5", which binary floating     *)
(* point holds exactly, so every sum, difference, floor, mod and round of  *)
(* the model is the one Python computes.                                   *)
(*                                                                         *)
(* Text.  TLA+ strings are ASCII: the label marks of format_duration are   *)
(* written "min" and "sec" (MinuteMark, SecondMark).  Column names of the  *)
(* detail frame are written in English.                                    *)
(***************************************************************************)
EXTENDS Integers, Sequences, FiniteSets, TLC

VARIABLES
    \* format_duration on its own
    seconds, label,
    \* the date windows
    today, date_range_current, date_range_previous,
    \* the detail frame and its three breakdowns
    df_details, df_channel, df_age, df_device,
    \* the KPI response, the two vectors and the four cards
    response_kpi, current_metrics, prev_metrics, kpi_cols,
    \* the registry (the sheet), the st.cache_data entry of get_sites_data
    sheet, readable, cache, message,
    \* one run of app.py
    pc, calls, sites, errors, warnings, caught, df_pages, report

durVars  == <<seconds, label>>
dateVars == <<today, date_range_current, date_range_previous>>
bdVars   == <<df_details, df_channel, df_age, df_device>>
kpiVars  == <<response_kpi, current_metrics, prev_metrics, kpi_cols>>
regVars  == <<sheet, readable, cache, message>>
runVars  == <<pc, calls, sites, errors, warnings, caught, df_pages, report>>
vars     == <<durVars, dateVars, bdVars, kpiVars, regVars, runVars>>

Range(s) == {s[i] : i \in DOMAIN s}

-----------------------------------------------------------------------------
(* format_duration, app.py 68-73.  The argument is a float, in halves.     *)

\* The marks written after the minutes and after the seconds.
MinuteMark == "min"
SecondMark == "sec"

\* math.floor(x / 60), x in halves.  \div rounds toward minus infinity.
FloorDiv60(x) == x \div 120

\* x % 60 of Python: the result has the sign of the divisor, in [0, 60).
Mod60(x) == x % 120

\* round(y) of Python 3 for y >= 0 in halves: to the nearest whole number,
\* a tie (y ends in .5) to the even neighbour.
PyRound(y) ==
    LET q == y \div 2
    IN  IF y % 2 = 0 THEN q
        ELSE IF q % 2 = 0 THEN q ELSE q + 1

\* format_duration with the minutes cut toward zero, int(seconds / 60).
format_duration_truncating(x) ==
    IF x = 0 THEN "0" \o SecondMark
    ELSE LET minutes == IF x >= 0 THEN x \div 120 ELSE -((-x) \div 120)
             remaining_seconds == PyRound(Mod60(x))
         IN  ToString(minutes) \o MinuteMark
                \o ToString(remaining_seconds) \o SecondMark

format_duration(x) ==
    IF x = 0 THEN "0" \o SecondMark
    ELSE LET minutes == FloorDiv60(x)
             remaining_seconds == PyRound(Mod60(x))
         IN  ToString(minutes) \o MinuteMark
                \o ToString(remaining_seconds) \o SecondMark


-----------------------------------------------------------------------------
(* Calendar dates, as datetime holds them: <<year, month, day>>.  The text *)
(* strftime('%Y-%m-%d') writes is held as the same three fields.           *)

IsLeap(y) == (y % 4 = 0) /\ ((y % 100 # 0) \/ (y % 400 = 0))

DaysInMonth(y, m) ==
    IF m = 2 THEN (IF IsLeap(y) THEN 29 ELSE 28)
    ELSE IF m \in {4, 6, 9, 11} THEN 30 ELSE 31

\* datetime's _days_before_year and _days_before_month.
DaysBeforeYear(y) ==
    LET p == y - 1 IN p * 365 + (p \div 4) - (p \div 100) + (p \div 400)

RECURSIVE DaysBeforeMonth(_, _)
DaysBeforeMonth(y, m) ==
    IF m = 1 THEN 0 ELSE DaysBeforeMonth(y, m - 1) + DaysInMonth(y, m - 1)

\* date.toordinal(): 0001-01-01 is day 1.
ToOrdinal(d) == DaysBeforeYear(d[1]) + DaysBeforeMonth(d[1], d[2]) + d[3]

\* The years the model's dates lie in.
Years == 2023..2027

\* date.fromordinal(): the date whose ordinal is n.
FromOrdinal(n) ==
    LET y == CHOOSE yy \in Years :
                 DaysBeforeYear(yy) < n /\ n <= DaysBeforeYear(yy + 1)
        m == CHOOSE mm \in 1..12 :
                 /\ DaysBeforeYear(y) + DaysBeforeMonth(y, mm) < n
                 /\ n <= DaysBeforeYear(y) + DaysBeforeMonth(y, mm)
                            + DaysInMonth(y, mm)
    IN  <<y, m, n - DaysBeforeYear(y) - DaysBeforeMonth(y, m)>>

\* today - relativedelta(days=n), then strftime('%Y-%m-%d').
MinusDays(d, n) == FromOrdinal(ToOrdinal(d) - n)

\* app.py 105-109.  The current window ends at the word "today", which the
\* reporting API reads as the date of the request.
DateRangeCurrent(t) ==
    [start_date |-> MinusDays(t, 29), end_date |-> "today"]

\* The previous window ending on the day the current one starts.
DateRangePrevious_overlapping(t) ==
    [start_date |-> MinusDays(t, 59), end_date |-> MinusDays(t, 29)]

DateRangePrevious(t) ==
    [start_date |-> MinusDays(t, 59), end_date |-> MinusDays(t, 30)]

NoDate == <<0, 0, 0>>
NoRange == [start_date |-> NoDate, end_date |-> NoDate]
NoRangeCurrent == [start_date |-> NoDate, end_date |-> ""]

\* The first run date of the model and the number of run dates after it.
FirstDay == ToOrdinal(<<2024, 1, 1>>)
NumDays == 800

RunDates == {FromOrdinal(FirstDay + k) : k \in 0..NumDays}

-----------------------------------------------------------------------------
(* Frames and series.  A pandas Series is a sequence of [key, value]       *)
(* entries in index order; the detail frame is a sequence of rows          *)
(* [channel, device, age, users].                                          *)

\* The texts that occur as group keys, in the order Python compares strings
\* (by code point: digits, then capitals, then small letters).
SortedTexts ==
    <<"18-24", "25-34", "35-44",
      "Direct", "Email", "Organic", "Organic Search", "Organic Social",
      "Paid Search", "Referral", "Unassigned",
      "desktop", "mobile", "tablet", "unknown">>

Rank(k) == CHOOSE i \in DOMAIN SortedTexts : SortedTexts[i] = k

\* s.head(n), s[:n].
Take(s, n) == SubSeq(s, 1, IF Len(s) < n THEN Len(s) ELSE n)

\* The keys of a set, ascending.
RECURSIVE SortedKeys(_)
SortedKeys(K) ==
    IF K = {} THEN <<>>
    ELSE LET k == CHOOSE x \in K : \A y \in K : Rank(x) <= Rank(y)
         IN  <<k>> \o SortedKeys(K \ {k})

RECURSIVE SumWhere(_, _, _)
SumWhere(rows, col, k) ==
    IF rows = <<>> THEN 0
    ELSE (IF rows[1][col] = k THEN rows[1].users ELSE 0)
            + SumWhere(Tail(rows), col, k)

\* df.groupby(col)["users"].sum(): one entry per key, the keys ascending
\* (groupby sorts its keys), each with the sum of its rows.
GroupSum(rows, col) ==
    LET keys == SortedKeys({rows[i][col] : i \in DOMAIN rows})
    IN  [i \in DOMAIN keys |->
            [key |-> keys[i], value |-> SumWhere(rows, col, keys[i])]]

\* A stable sort by descending value (mergesort on the negated values): an
\* entry goes after every entry already there that is at least as large.
RECURSIVE InsertDesc(_, _)
InsertDesc(s, e) ==
    IF s = <<>> THEN <<e>>
    ELSE IF s[1].value >= e.value THEN <<s[1]>> \o InsertDesc(Tail(s), e)
    ELSE <<e>> \o s

RECURSIVE StableSortDesc(_)
StableSortDesc(s) ==
    IF s = <<>> THEN <<>>
    ELSE InsertDesc(StableSortDesc(SubSeq(s, 1, Len(s) - 1)), s[Len(s)])

RECURSIVE Filter(_, _)
Filter(s, v) ==
    IF s = <<>> THEN <<>>
    ELSE (IF s[1].value >= v THEN <<s[1]>> ELSE <<>>) \o Filter(Tail(s), v)

\* The orders of a series by descending value: one for each order of the
\* entries of equal value.
DescendingOrders(s) ==
    {t \in [DOMAIN s -> Range(s)] :
        /\ \A e \in Range(s) : \E i \in DOMAIN t : t[i] = e
        /\ \A i \in 1..(Len(s) - 1) : t[i].value >= t[i + 1].value}

\* Series.nlargest(n), keep='first': the results it can give.
\*   More than n entries: the entries no smaller than the n-th largest value,
\*   stably sorted by descending value, cut to n.
\*   At most n entries: sort_values(ascending=False), whose default sort is
\*   not stable; entries of equal value come in an order the build decides.
NLargest(s, n) ==
    IF Len(s) > n
    THEN LET kth == StableSortDesc(s)[n].value
         IN  {Take(StableSortDesc(Filter(s, kth)), n)}
    ELSE DescendingOrders(s)

\* A stable sort by ascending key.
RECURSIVE InsertByKey(_, _)
InsertByKey(s, e) ==
    IF s = <<>> THEN <<e>>
    ELSE IF Rank(s[1].key) <= Rank(e.key)
         THEN <<s[1]>> \o InsertByKey(Tail(s), e)
    ELSE <<e>> \o s

\* Series.sort_index().
RECURSIVE SortIndex(_)
SortIndex(s) ==
    IF s = <<>> THEN <<>>
    ELSE InsertByKey(SortIndex(SubSeq(s, 1, Len(s) - 1)), s[Len(s)])

\* The number of entries nlargest and head keep, app.py 123 and 135.
TopN == 5

\* groupby(col, sort=False): the keys in the order the rows first show them.
RECURSIVE FirstSeenKeys(_, _)
FirstSeenKeys(rows, col) ==
    IF rows = <<>> THEN <<>>
    ELSE LET before == FirstSeenKeys(SubSeq(rows, 1, Len(rows) - 1), col)
             k == rows[Len(rows)][col]
         IN  IF k \in Range(before) THEN before ELSE Append(before, k)

ChannelBreakdowns_first_seen(rows) ==
    LET keys == FirstSeenKeys(rows, "channel")
        sums == [i \in DOMAIN keys |->
                    [key |-> keys[i],
                     value |-> SumWhere(rows, "channel", keys[i])]]
    IN  NLargest(sums, TopN)

\* The device sums put in descending order, sort_values(ascending=False).
DeviceBreakdown_by_value(rows) == StableSortDesc(GroupSum(rows, "device"))

\* app.py 135-137.
ChannelBreakdowns(rows) == NLargest(GroupSum(rows, "channel"), TopN)
AgeBreakdown(rows) == SortIndex(GroupSum(rows, "age"))
DeviceBreakdown(rows) == GroupSum(rows, "device")

\* A series that was not computed: the name is unbound.  (A series computed
\* from a frame with rows has entries.)
NoSeries == <<>>

\* app.py 134-139: the three charts, or "no data" when the frame is empty.
RenderBreakdowns ==
    IF df_details # <<>>
    THEN /\ df_channel' \in ChannelBreakdowns(df_details)
         /\ df_age' = AgeBreakdown(df_details)
         /\ df_device' = DeviceBreakdown(df_details)
    ELSE /\ df_channel' = NoSeries
         /\ df_age' = NoSeries
         /\ df_device' = NoSeries

-----------------------------------------------------------------------------
(* The KPI response and the four KPI cards.  A metric value arrives as     *)
(* text, a sequence of characters; a response row holds the name of its    *)
(* date range ("date_range_0" is the first range of the request, the       *)
(* current window, "date_range_1" the previous one) and the four values.   *)

DigitValue(c) ==
    CASE c = "0" -> 0 [] c = "1" -> 1 [] c = "2" -> 2 [] c = "3" -> 3
      [] c = "4" -> 4 [] c = "5" -> 5 [] c = "6" -> 6 [] c = "7" -> 7
      [] c = "8" -> 8 [] c = "9" -> 9

\* int(text) of a text of digits.
RECURSIVE ParseInt(_)
ParseInt(t) ==
    IF t = <<>> THEN 0
    ELSE 10 * ParseInt(SubSeq(t, 1, Len(t) - 1)) + DigitValue(t[Len(t)])

\* float(text), in halves, of digits with or without one decimal (0 or 5).
ParseFloat(t) ==
    IF Len(t) > 2 /\ t[Len(t) - 1] = "."
    THEN 2 * ParseInt(SubSeq(t, 1, Len(t) - 2))
            + (IF t[Len(t)] = "5" THEN 1 ELSE 0)
    ELSE 2 * ParseInt(t)

\* [0, 0, 0, 0]
ZeroMetrics == <<0, 0, 0, 0>>

MetricValues(row) ==
    [i \in DOMAIN row.metric_values |-> ParseFloat(row.metric_values[i])]

\* app.py 114 and 115.
CurrentMetrics(rows) ==
    IF rows # <<>> THEN MetricValues(rows[1]) ELSE ZeroMetrics

PrevMetrics(rows) ==
    IF Len(rows) > 1 THEN MetricValues(rows[2]) ELSE ZeroMetrics

\* int(x) of a float x in halves: the fraction is cut, toward zero.
IntOf(x) == IF x >= 0 THEN x \div 2 ELSE -((-x) \div 2)

\* Three digits, with leading zeros.
Pad3(n) ==
    IF n < 10 THEN "00" \o ToString(n)
    ELSE IF n < 100 THEN "0" \o ToString(n) ELSE ToString(n)

\* f"{n:,}": the digits in groups of three.
RECURSIVE Grouped(_)
Grouped(n) ==
    IF n < 0 THEN "-" \o Grouped(-n)
    ELSE IF n < 1000 THEN ToString(n)
    ELSE Grouped(n \div 1000) \o "," \o Pad3(n % 1000)

Card(title, value, delta) == [title |-> title, value |-> value, delta |-> delta]

\* Every delta cut off at zero, max(0, current - previous).
KpiCards_clamped(cur, prev) ==
    LET d(i) == IF cur[i] - prev[i] < 0 THEN 0 ELSE cur[i] - prev[i]
    IN  <<Card("users", Grouped(IntOf(cur[1])), Grouped(IntOf(d(1)))),
          Card("sessions", Grouped(IntOf(cur[2])), Grouped(IntOf(d(2)))),
          Card("duration", format_duration(cur[4]), format_duration(d(4))),
          Card("conversions", Grouped(IntOf(cur[3])), Grouped(IntOf(d(3))))>>

\* app.py 126-130: the cards in the order of the columns.  Python counts the
\* metrics from 0; here they are counted from 1.
KpiCards(cur, prev) ==
    <<Card("users", Grouped(IntOf(cur[1])),
           Grouped(IntOf(cur[1] - prev[1]))),
      Card("sessions", Grouped(IntOf(cur[2])),
           Grouped(IntOf(cur[2] - prev[2]))),
      Card("duration", format_duration(cur[4]),
           format_duration(cur[4] - prev[4])),
      Card("conversions", Grouped(IntOf(cur[3])),
           Grouped(IntOf(cur[3] - prev[3])))>>

KpiRow(range, values) == [dimension_values |-> <<range>>, metric_values |-> values]

\* The responses to the KPI query over a set of value vectors: no row, a
\* row of one of the two date ranges, or a row of each.
KpiResponsesOf(V) ==
    {<<>>}
      \cup {<<KpiRow(r, v)>> : r \in {"date_range_0", "date_range_1"}, v \in V}
      \cup {<<KpiRow("date_range_0", v), KpiRow("date_range_1", w)>> :
              v \in V, w \in V}

-----------------------------------------------------------------------------
(* The registry: the first worksheet of the spreadsheet, a sequence of     *)
(* rows of two cells.  The worksheet of the model always has a first row.  *)

HeaderRow == <<"SiteName", "PropertyID">>

\* pd.DataFrame()
EmptyFrame == [columns |-> <<>>, rows |-> <<>>]

\* get_as_dataframe(sheet).dropna(how='all'): the first row names the
\* columns, the rows after it are the records.
FrameOf(sh) == [columns |-> sh[1], rows |-> Tail(sh)]

\* DataFrame.empty
IsEmpty(df) == df.rows = <<>>

HasColumn(df, c) == \E i \in DOMAIN df.columns : df.columns[i] = c

\* df[c].tolist()
Column(df, c) ==
    LET ci == CHOOSE i \in DOMAIN df.columns :
                  /\ df.columns[i] = c
                  /\ \A j \in 1..(i - 1) : df.columns[j] # c
    IN  [r \in DOMAIN df.rows |-> df.rows[r][ci]]

\* The cell texts that read as numbers.
NumericText(t) == t \in {"123", "456"}

\* A column whose every cell reads as a number is a column of numbers, not
\* of strings (the frame is built by pandas' parser).
NumericColumn(col) == col # <<>> /\ \A i \in DOMAIN col : NumericText(col[i])

\* Worksheet.find(query) with a string: the first cell, row by row, whose
\* value equals the query; its row, or 0 when there is none.
FindRow(sh, query) ==
    IF \E r \in DOMAIN sh : \E c \in DOMAIN sh[r] : sh[r][c] = query
    THEN CHOOSE r \in DOMAIN sh :
            /\ \E c \in DOMAIN sh[r] : sh[r][c] = query
            /\ \A q \in 1..(r - 1) : \A c \in DOMAIN sh[q] : sh[q][c] # query
    ELSE 0

\* Worksheet.delete_rows(r)
DeleteRow(sh, r) == SubSeq(sh, 1, r - 1) \o SubSeq(sh, r + 1, Len(sh))

\* The message a page shows last.
Message(kind, name) == [kind |-> kind, name |-> name]
NoMessage == Message("", "")

\* The st.cache_data entry of get_sites_data: none, or the frame it
\* returned and whether it showed an error while it ran.
NoEntry == [hit |-> FALSE, value |-> EmptyFrame, error |-> FALSE]
Entry(df, error) == [hit |-> TRUE, value |-> df, error |-> error]

Call(name, ok) == [call |-> name, ok |-> ok]

\* app.py 52-61, get_sites_data under st.cache_data(ttl=600): what it
\* returns, the entry it leaves, the external call it makes and the errors
\* it shows.  A cached result is returned without a call; the st.error of
\* the cached run is shown again or not (replay).
get_sites_data(replay) ==
    IF cache.hit
    THEN [df |-> cache.value, cache |-> cache, calls |-> <<>>,
          errors |-> IF cache.error /\ replay THEN 1 ELSE 0]
    ELSE IF readable
    THEN [df |-> FrameOf(sheet), cache |-> Entry(FrameOf(sheet), FALSE),
          calls |-> <<Call("registry", TRUE)>>, errors |-> 0]
    ELSE [df |-> EmptyFrame, cache |-> Entry(EmptyFrame, TRUE),
          calls |-> <<Call("registry", FALSE)>>, errors |-> 1]

-----------------------------------------------------------------------------
(* The states in which a part of the program has not run.                  *)

DurIdle == seconds = 0 /\ label = ""

DateIdle ==
    /\ today = NoDate
    /\ date_range_current = NoRangeCurrent
    /\ date_range_previous = NoRange

BdIdle ==
    /\ df_details = <<>>
    /\ df_channel = NoSeries /\ df_age = NoSeries /\ df_device = NoSeries

KpiIdle ==
    /\ response_kpi = <<>>
    /\ current_metrics = <<>> /\ prev_metrics = <<>>
    /\ kpi_cols = <<>>

RegIdle ==
    /\ sheet = <<HeaderRow>> /\ readable = TRUE
    /\ cache = NoEntry /\ message = NoMessage

RunIdle ==
    /\ pc = "idle" /\ calls = <<>> /\ sites = EmptyFrame
    /\ errors = 0 /\ warnings = 0 /\ caught = 0
    /\ df_pages = <<>> /\ report = FALSE

-----------------------------------------------------------------------------
(* format_duration applied to one value.                                   *)

MaxSeconds == 200

InitDuration ==
    /\ seconds \in (-2 * MaxSeconds)..(2 * MaxSeconds)
    /\ label = ""
    /\ DateIdle /\ BdIdle /\ KpiIdle /\ RegIdle /\ RunIdle

Format ==
    /\ label = ""
    /\ label' = format_duration(seconds)
    /\ UNCHANGED <<seconds, dateVars, bdVars, kpiVars, regVars, runVars>>

SpecDuration == InitDuration /\ [][Format]_vars

-----------------------------------------------------------------------------
(* The two date windows of one run date.                                   *)

InitDates ==
    /\ today \in RunDates
    /\ date_range_current = NoRangeCurrent
    /\ date_range_previous = NoRange
    /\ DurIdle /\ BdIdle /\ KpiIdle /\ RegIdle /\ RunIdle

BuildDateRanges ==
    /\ date_range_current = NoRangeCurrent
    /\ date_range_current' = DateRangeCurrent(today)
    /\ date_range_previous' = DateRangePrevious(today)
    /\ UNCHANGED <<today, durVars, bdVars, kpiVars, regVars, runVars>>

SpecDates == InitDates /\ [][BuildDateRanges]_vars

-----------------------------------------------------------------------------
(* The three breakdowns of one detail frame.                               *)

AllChannels ==
    <<"Direct", "Email", "Organic", "Organic Search", "Organic Social",
      "Paid Search", "Referral", "Unassigned">>
Devices == <<"desktop", "mobile", "tablet">>
Ages == <<"18-24", "25-34", "unknown">>

\* The number of distinct channels of a wide frame (more than TopN), and
\* the largest number of rows of a short one.
NumChannels == 6
MaxShortRows == 3

DetailRow(c, d, a, u) == [channel |-> c, device |-> d, age |-> a, users |-> u]

\* 1..NumChannels with i and j exchanged.
Exchanged(i, j) ==
    [k \in 1..NumChannels |-> IF k = i THEN j ELSE IF k = j THEN i ELSE k]

\* Wide frames: every channel once, in ascending order but for two that are
\* exchanged, then no row or one more row of a channel already seen.
WideFrames ==
    LET base(o, u) ==
            [k \in 1..NumChannels |->
                DetailRow(AllChannels[o[k]], Devices[((k - 1) % 3) + 1],
                          Ages[((k - 1) % 2) + 1], u[k])]
        more == {<<>>} \cup
                {<<DetailRow(AllChannels[c], "mobile", "unknown", n)>> :
                    c \in 1..NumChannels, n \in {10, 30}}
    IN  {base(Exchanged(i, j), u) \o m :
            i \in 1..NumChannels, j \in 1..NumChannels,
            u \in [1..NumChannels -> {10, 30}], m \in more}

\* Short frames: up to MaxShortRows rows of one channel.
ShortRows ==
    {DetailRow("Direct", d, a, n) :
        d \in Range(Devices), a \in Range(Ages) \ {"unknown"}, n \in {10, 30}}

ShortFrames ==
    UNION {[1..n -> ShortRows] : n \in 1..MaxShortRows}

\* Three rows of two channels.
ExampleFrame ==
    <<DetailRow("Direct", "desktop", "25-34", 50),
      DetailRow("Organic", "mobile", "18-24", 30),
      DetailRow("Direct", "mobile", "25-34", 10)>>

InitBreakdown ==
    /\ df_details \in WideFrames \cup ShortFrames \cup {ExampleFrame}
    /\ df_channel = NoSeries /\ df_age = NoSeries /\ df_device = NoSeries
    /\ DurIdle /\ DateIdle /\ KpiIdle /\ RegIdle /\ RunIdle

Breakdown ==
    /\ df_channel = NoSeries
    /\ RenderBreakdowns
    /\ UNCHANGED <<df_details, durVars, dateVars, kpiVars, regVars, runVars>>

SpecBreakdown == InitBreakdown /\ [][Breakdown]_vars

-----------------------------------------------------------------------------
(* The KPI vectors and cards of one response.                              *)

\* Value vectors: users, sessions, conversions (whole numbers) and the
\* average session duration, as the texts of the response.
KpiVectors ==
    {<<u, s, c, d>> :
        u \in {<<"8", "0">>, <<"1", "0", "0">>, <<"1", "2", "0", "0">>},
        s \in {<<"1", "4", "0">>, <<"1", "5", "0">>},
        c \in {<<"8">>, <<"1", "0">>},
        d \in {<<"9", "5">>, <<"1", "2", "5">>, <<"6", "2", ".", "5">>}}

InitKpi ==
    /\ response_kpi \in KpiResponsesOf(KpiVectors)
    /\ current_metrics = <<>> /\ prev_metrics = <<>>
    /\ kpi_cols = <<>>
    /\ DurIdle /\ DateIdle /\ BdIdle /\ RegIdle /\ RunIdle

\* app.py 114-115
ParseKpi ==
    /\ current_metrics = <<>>
    /\ current_metrics' = CurrentMetrics(response_kpi)
    /\ prev_metrics' = PrevMetrics(response_kpi)
    /\ UNCHANGED <<response_kpi, kpi_cols>>
    /\ UNCHANGED <<durVars, dateVars, bdVars, regVars, runVars>>

\* app.py 126-130
RenderKpi ==
    /\ current_metrics # <<>>
    /\ kpi_cols = <<>>
    /\ kpi_cols' = KpiCards(current_metrics, prev_metrics)
    /\ UNCHANGED <<response_kpi, current_metrics, prev_metrics>>
    /\ UNCHANGED <<durVars, dateVars, bdVars, regVars, runVars>>

SpecKpi == InitKpi /\ [][ParseKpi \/ RenderKpi]_vars

-----------------------------------------------------------------------------
(* One run of app.py, from the script's start to its end: the registry     *)
(* read, then, when the button is pressed, the three queries, the charts   *)
(* and the narrative.  An external call succeeds or raises.                *)

DetailResponseRow(c, d, a, text) ==
    [dimension_values |-> <<c, d, a>>, metric_values |-> <<text>>]

\* app.py 118
DetailsData(rows) ==
    [i \in DOMAIN rows |->
        DetailRow(rows[i].dimension_values[1], rows[i].dimension_values[2],
                  rows[i].dimension_values[3],
                  ParseInt(rows[i].metric_values[1]))]

PageResponseRow(title, text) ==
    [dimension_values |-> <<title>>, metric_values |-> <<text>>]

\* app.py 122-123
PagesFrame(rows) ==
    Take([i \in DOMAIN rows |->
            [title |-> rows[i].dimension_values[1],
             views |-> ParseInt(rows[i].metric_values[1])]], TopN)

\* The responses of the model's runs.
RunKpiVectors ==
    {<<<<"1", "0", "0">>, <<"1", "5", "0">>, <<"1", "0">>, <<"1", "2", "5">>>>,
     <<<<"8", "0">>, <<"1", "4", "0">>, <<"8">>, <<"9", "5">>>>,
     <<<<"1", "2", "0", "0">>, <<"1", "5", "0">>, <<"0">>,
       <<"6", "2", ".", "5">>>>}

RunDetailResponses ==
    {<<>>,
     <<DetailResponseRow("Direct", "desktop", "25-34", <<"5", "0">>),
       DetailResponseRow("Organic", "mobile", "18-24", <<"3", "0">>),
       DetailResponseRow("Direct", "mobile", "25-34", <<"1", "0">>)>>,
     [k \in 1..6 |->
        DetailResponseRow(AllChannels[7 - k], Devices[((k - 1) % 3) + 1],
                          Ages[((k - 1) % 2) + 1],
                          IF k % 2 = 0 THEN <<"3", "0">> ELSE <<"1", "0">>)]}

\* The pages query asks for the rows in descending order of the views.
RunPageResponses ==
    {<<>>,
     <<PageResponseRow("Home", <<"9", "0">>),
       PageResponseRow("Pricing", <<"4", "0">>)>>,
     [k \in 1..6 |-> PageResponseRow(AllChannels[k], <<ToString(7 - k), "0">>)]}

RunDateSamples == {<<2024, 3, 1>>, <<2025, 1, 15>>}

\* app.py 159-160: the exception reaches the except of the script, which
\* shows it; the script ends.
CaughtAtTopLevel(shown) ==
    /\ caught' = caught + 1
    /\ errors' = shown + 1
    /\ pc' = "done"

\* app.py 76-109: the script up to the KPI query.
RunScript(button) ==
    /\ pc = "idle"
    /\ \E replay \in BOOLEAN, day \in RunDateSamples :
        LET got == get_sites_data(replay)
        IN  /\ sites' = got.df
            /\ cache' = got.cache
            /\ calls' = got.calls
            /\ IF IsEmpty(got.df)
               THEN \* app.py 80-81
                    /\ warnings' = warnings + 1
                    /\ errors' = got.errors
                    /\ pc' = "done"
                    /\ UNCHANGED <<caught, dateVars>>
               ELSE IF \/ ~HasColumn(got.df, "SiteName")
                       \/ ~HasColumn(got.df, "PropertyID")
               THEN \* app.py 83, 87: KeyError
                    /\ CaughtAtTopLevel(got.errors)
                    /\ UNCHANGED <<warnings, dateVars>>
               ELSE IF button
               THEN \* app.py 102-109
                    /\ today' = day
                    /\ date_range_current' = DateRangeCurrent(day)
                    /\ date_range_previous' = DateRangePrevious(day)
                    /\ pc' = "kpi"
                    /\ errors' = got.errors
                    /\ UNCHANGED <<warnings, caught>>
               ELSE /\ pc' = "done"
                    /\ errors' = got.errors
                    /\ UNCHANGED <<warnings, caught, dateVars>>
    /\ UNCHANGED <<sheet, readable, message, df_pages, report>>
    /\ UNCHANGED <<durVars, bdVars, kpiVars>>

\* The KPI query that goes on to the detail query although it raised (the
\* error is shown where it happens).
KpiQuery_carrying_on(ok, response) ==
    /\ pc = "kpi"
    /\ calls' = Append(calls, Call("kpi", ok))
    /\ response_kpi' = IF ok THEN response ELSE <<>>
    /\ current_metrics' = CurrentMetrics(response_kpi')
    /\ prev_metrics' = PrevMetrics(response_kpi')
    /\ pc' = "details"
    /\ errors' = IF ok THEN errors ELSE errors + 1
    /\ UNCHANGED <<kpi_cols, sites, warnings, caught, df_pages, report>>
    /\ UNCHANGED <<durVars, dateVars, bdVars, regVars>>

\* app.py 113-115
KpiQuery(ok, response) ==
    /\ pc = "kpi"
    /\ calls' = Append(calls, Call("kpi", ok))
    /\ IF ok
       THEN /\ response_kpi' = response
            /\ current_metrics' = CurrentMetrics(response)
            /\ prev_metrics' = PrevMetrics(response)
            /\ pc' = "details"
            /\ UNCHANGED <<errors, caught>>
       ELSE /\ CaughtAtTopLevel(errors)
            /\ UNCHANGED <<response_kpi, current_metrics, prev_metrics>>
    /\ UNCHANGED <<kpi_cols, sites, warnings, df_pages, report>>
    /\ UNCHANGED <<durVars, dateVars, bdVars, regVars>>

\* app.py 117-119
DetailQuery(ok, response) ==
    /\ pc = "details"
    /\ calls' = Append(calls, Call("details", ok))
    /\ IF ok
       THEN /\ df_details' = DetailsData(response)
            /\ pc' = "pages"
            /\ UNCHANGED <<errors, caught>>
       ELSE /\ CaughtAtTopLevel(errors)
            /\ UNCHANGED df_details
    /\ UNCHANGED <<df_channel, df_age, df_device>>
    /\ UNCHANGED <<sites, warnings, df_pages, report>>
    /\ UNCHANGED <<durVars, dateVars, kpiVars, regVars>>

\* app.py 121-144: the pages query, then the cards and the charts.
PagesQuery(ok, response) ==
    /\ pc = "pages"
    /\ calls' = Append(calls, Call("pages", ok))
    /\ IF ok
       THEN /\ df_pages' = PagesFrame(response)
            /\ kpi_cols' = KpiCards(current_metrics, prev_metrics)
            /\ RenderBreakdowns
            /\ pc' = "narrative"
            /\ UNCHANGED <<errors, caught>>
       ELSE /\ CaughtAtTopLevel(errors)
            /\ UNCHANGED <<df_pages, kpi_cols, df_channel, df_age, df_device>>
    /\ UNCHANGED <<df_details, response_kpi, current_metrics, prev_metrics>>
    /\ UNCHANGED <<sites, warnings, report>>
    /\ UNCHANGED <<durVars, dateVars, regVars>>

\* app.py 146-157: the narrative call and its display.
Narrative(ok) ==
    /\ pc = "narrative"
    /\ calls' = Append(calls, Call("narrative", ok))
    /\ IF ok
       THEN /\ report' = TRUE
            /\ pc' = "done"
            /\ UNCHANGED <<errors, caught>>
       ELSE /\ CaughtAtTopLevel(errors)
            /\ UNCHANGED report
    /\ UNCHANGED <<sites, warnings, df_pages>>
    /\ UNCHANGED <<durVars, dateVars, bdVars, kpiVars, regVars>>

\* The next user action runs the script afresh: nothing of the run is kept
\* but the cache entry and the sheet.
NewInvocation ==
    /\ pc = "done"
    /\ pc' = "idle" /\ calls' = <<>> /\ sites' = EmptyFrame
    /\ errors' = 0 /\ warnings' = 0 /\ caught' = 0
    /\ df_pages' = <<>> /\ report' = FALSE
    /\ response_kpi' = <<>>
    /\ current_metrics' = <<>> /\ prev_metrics' = <<>>
    /\ kpi_cols' = <<>>
    /\ df_details' = <<>>
    /\ df_channel' = NoSeries /\ df_age' = NoSeries /\ df_device' = NoSeries
    /\ today' = NoDate
    /\ date_range_current' = NoRangeCurrent
    /\ date_range_previous' = NoRange
    /\ UNCHANGED <<durVars, regVars>>

\* The registry becomes unreadable (a bad URL, a permission) or readable.
SetReadable ==
    /\ pc = "idle"
    /\ readable' = ~readable
    /\ UNCHANGED <<sheet, cache, message>>
    /\ UNCHANGED <<durVars, dateVars, bdVars, kpiVars, runVars>>

\* The entry is older than its ttl (600 seconds).
ExpireCache ==
    /\ pc = "idle"
    /\ cache.hit
    /\ cache' = NoEntry
    /\ UNCHANGED <<sheet, readable, message>>
    /\ UNCHANGED <<durVars, dateVars, bdVars, kpiVars, runVars>>

Init ==
    /\ sheet \in {<<HeaderRow>>, <<HeaderRow, <<"Acme", "123">>>>}
    /\ readable = TRUE /\ cache = NoEntry /\ message = NoMessage
    /\ DurIdle /\ DateIdle /\ BdIdle /\ KpiIdle /\ RunIdle

Next ==
    \/ \E button \in BOOLEAN : RunScript(button)
    \/ \E ok \in BOOLEAN, r \in KpiResponsesOf(RunKpiVectors) : KpiQuery(ok, r)
    \/ \E ok \in BOOLEAN, r \in RunDetailResponses : DetailQuery(ok, r)
    \/ \E ok \in BOOLEAN, r \in RunPageResponses : PagesQuery(ok, r)
    \/ \E ok \in BOOLEAN : Narrative(ok)
    \/ NewInvocation
    \/ SetReadable
    \/ ExpireCache

Spec == Init /\ [][Next]_vars

-----------------------------------------------------------------------------
(* The Settings page and the dashboard's reads of the registry.            *)

\* The largest number of records of the sheet, and the texts typed.
MaxSites == 3
NameInputs == {"", "Acme", "123", "SiteName"}
PropertyInputs == {"", "123", "456"}

\* Settings 42-54: the form is submitted.
AddSite(new_site_name, new_property_id) ==
    /\ pc = "idle"
    /\ Len(sheet) <= MaxSites
    /\ IF new_site_name # "" /\ new_property_id # ""
       THEN /\ sheet' = Append(sheet, <<new_site_name, new_property_id>>)
            /\ message' = Message("registered", new_site_name)
            /\ cache' = NoEntry
       ELSE /\ message' = Message("warning", "")
            /\ UNCHANGED <<sheet, cache>>
    /\ UNCHANGED readable
    /\ UNCHANGED <<durVars, dateVars, bdVars, kpiVars, runVars>>

\* Settings 56-70: the delete button is pressed.  The section is there when
\* the frame has records, and its select box when the frame has the column
\* SiteName (line 59 raises without it).
DeleteSite(site_to_delete) ==
    LET sites_df == FrameOf(sheet)
    IN  /\ pc = "idle"
        /\ ~IsEmpty(sites_df)
        /\ HasColumn(sites_df, "SiteName")
        /\ site_to_delete \in {""} \cup Range(Column(sites_df, "SiteName"))
        /\ IF site_to_delete = ""
           THEN /\ message' = Message("warning", "")
                /\ UNCHANGED <<sheet, cache>>
           ELSE IF NumericColumn(Column(sites_df, "SiteName"))
           THEN \* the option is a number: find takes it for a pattern and
                \* raises, line 72 shows the error
                /\ message' = Message("error", site_to_delete)
                /\ UNCHANGED <<sheet, cache>>
           ELSE LET row == FindRow(sheet, site_to_delete)
                IN  IF row # 0
                    THEN /\ sheet' = DeleteRow(sheet, row)
                         /\ message' = Message("deleted", site_to_delete)
                         /\ cache' = NoEntry
                    ELSE UNCHANGED <<sheet, cache, message>>
        /\ UNCHANGED readable
        /\ UNCHANGED <<durVars, dateVars, bdVars, kpiVars, runVars>>

InitRegistry ==
    /\ RegIdle
    /\ DurIdle /\ DateIdle /\ BdIdle /\ KpiIdle /\ RunIdle

NextRegistry ==
    \/ \E n \in NameInputs, p \in PropertyInputs : AddSite(n, p)
    \/ \E n \in NameInputs : DeleteSite(n)
    \/ RunScript(FALSE)
    \/ NewInvocation
    \/ SetReadable
    \/ ExpireCache

SpecRegistry == InitRegistry /\ [][NextRegistry]_vars

-----------------------------------------------------------------------------
(* The claims.                                                             *)

\* The users of the rows of the detail frame whose column col holds k.
RECURSIVE UsersIn(_, _, _)
UsersIn(I, col, k) ==
    IF I = {} THEN 0
    ELSE LET i == CHOOSE x \in I : TRUE
         IN  (IF df_details[i][col] = k THEN df_details[i].users ELSE 0)
                + UsersIn(I \ {i}, col, k)

Total(col, k) == UsersIn(DOMAIN df_details, col, k)

KeysOf(col) == {df_details[i][col] : i \in DOMAIN df_details}

SeriesKeys(s) == {s[i].key : i \in DOMAIN s}

\* The place of the first row of the detail frame with channel c.
FirstSeen(c) ==
    CHOOSE i \in DOMAIN df_details :
        /\ df_details[i].channel = c
        /\ \A j \in 1..(i - 1) : df_details[j].channel # c

ManyChannels == Cardinality(KeysOf("channel")) > TopN

\* Every entry of the channel breakdown is a channel with its total, no
\* channel comes twice, and there are exactly TopN entries.
TopFiveTotals ==
    /\ Len(df_channel) = TopN
    /\ \A i \in DOMAIN df_channel :
          /\ df_channel[i].key \in KeysOf("channel")
          /\ df_channel[i].value = Total("channel", df_channel[i].key)
    /\ \A i, j \in DOMAIN df_channel :
          i # j => df_channel[i].key # df_channel[j].key

ByKey(a, b) == Rank(a) < Rank(b)
ByFirstSeen(a, b) == FirstSeen(a) < FirstSeen(b)

\* The channel breakdown is the first TopN channels of the order "larger
\* total first, and among equal totals the one of the lesser name (byName)
\* or the one the rows show first".
RankedBy(byName) ==
    LET first(a, b) ==
            \/ Total("channel", a) > Total("channel", b)
            \/ /\ Total("channel", a) = Total("channel", b)
               /\ IF byName THEN ByKey(a, b) ELSE ByFirstSeen(a, b)
    IN  /\ \A i, j \in DOMAIN df_channel :
              i < j => first(df_channel[i].key, df_channel[j].key)
        /\ \A c \in KeysOf("channel") \ SeriesKeys(df_channel) :
              \A i \in DOMAIN df_channel : first(df_channel[i].key, c)

\* C2, as amended.  With more than 5 distinct channels the channel
\* breakdown has exactly 5 entries, each a channel with the sum of the
\* users of its rows, in descending order of the sums; channels of equal
\* sums come in ascending order of their names, which also decides which of
\* them is kept at the cut.
C2_TopFiveTiesByName ==
    (df_channel # NoSeries /\ ManyChannels) =>
        TopFiveTotals /\ RankedBy(TRUE)

\* C2, as claimed: channels of equal sums come in the order of their first
\* rows in the input.
C2_TopFiveTiesByFirstSeen ==
    (df_channel # NoSeries /\ ManyChannels) =>
        TopFiveTotals /\ RankedBy(FALSE)

\* A breakdown of more than 5 channels in which two kept channels have
\* equal sums, a dropped channel has the sum of the last kept one, and the
\* input shows the channels in another order than their names.
C2_Witness ==
    /\ df_channel # NoSeries /\ ManyChannels
    /\ \E i \in 1..(TopN - 1) : df_channel[i].value = df_channel[i + 1].value
    /\ \E c \in KeysOf("channel") \ SeriesKeys(df_channel) :
          Total("channel", c) = df_channel[TopN].value
    /\ \E a, b \in KeysOf("channel") : ByKey(a, b) /\ ByFirstSeen(b, a)

\* A series holds every key of column col once, each with the sum of the
\* users of its rows.
Complete(s, col) ==
    /\ SeriesKeys(s) = KeysOf(col)
    /\ Len(s) = Cardinality(KeysOf(col))
    /\ \A i \in DOMAIN s : s[i].value = Total(col, s[i].key)

AscendingKeys(s) ==
    \A i, j \in DOMAIN s : i < j => Rank(s[i].key) < Rank(s[j].key)

DescendingValues(s) ==
    \A i, j \in DOMAIN s : i < j => s[i].value >= s[j].value

\* C9, as amended.  For a frame with rows, the device breakdown holds every
\* device category, each with the sum of the users of its rows, in
\* ascending order of the category names; the age breakdown holds every age
\* bracket, each with its sum, in ascending order of the brackets.
C9_BreakdownsByKey ==
    df_device # NoSeries =>
        /\ Complete(df_device, "device") /\ AscendingKeys(df_device)
        /\ Complete(df_age, "age") /\ AscendingKeys(df_age)

\* C9, as claimed: the device breakdown is in descending order of the sums.
C9_DeviceByValue ==
    df_device # NoSeries =>
        /\ Complete(df_device, "device") /\ DescendingValues(df_device)
        /\ Complete(df_age, "age") /\ AscendingKeys(df_age)

\* Breakdowns of a frame with three devices and two age brackets, the sums
\* of the devices not all equal.
C9_Witness ==
    /\ df_device # NoSeries
    /\ Len(df_device) = 3 /\ Len(df_age) >= 2
    /\ df_device[1].value < df_device[2].value

\* The minutes a label of at most MaxSeconds seconds can show.
Minutes == (-(MaxSeconds \div 60) - 1)..((MaxSeconds \div 60) + 1)

\* C3.  format_duration(0) is "0sec"; for a whole number s # 0 of seconds
\* the label is "<m>min<r>sec" with r in 0..59 and m * 60 + r = s, m
\* negative when s is; 125, 59 and 30 seconds give "2min5sec", "0min59sec"
\* and "0min30sec".
C3_FormatDuration ==
    label # "" =>
        /\ seconds = 0 => label = "0sec"
        /\ (seconds # 0 /\ seconds % 2 = 0) =>
              \E m \in Minutes, r \in 0..59 :
                  /\ m * 60 + r = seconds \div 2
                  /\ seconds < 0 => m < 0
                  /\ label = ToString(m) \o "min" \o ToString(r) \o "sec"
        /\ seconds = 2 * 125 => label = "2min5sec"
        /\ seconds = 2 * 59 => label = "0min59sec"
        /\ seconds = 2 * 30 => label = "0min30sec"

\* The label of minus 30 seconds.
C3_Witness == seconds = 2 * (-30) /\ label = "-1min30sec"

\* The day after d.
NextDay(d) ==
    IF d[3] < DaysInMonth(d[1], d[2]) THEN <<d[1], d[2], d[3] + 1>>
    ELSE IF d[2] < 12 THEN <<d[1], d[2] + 1, 1>>
    ELSE <<d[1] + 1, 1, 1>>

\* The days of the calendar in the years of the model.
CalendarDays ==
    {d \in Years \X (1..12) \X (1..31) : d[3] <= DaysInMonth(d[1], d[2])}

NotAfter(a, b) ==
    \/ a[1] < b[1]
    \/ a[1] = b[1] /\ a[2] < b[2]
    \/ a[1] = b[1] /\ a[2] = b[2] /\ a[3] <= b[3]

\* The number of calendar days from a to b, both counted.
DaysFromTo(a, b) ==
    Cardinality({d \in CalendarDays : NotAfter(a, d) /\ NotAfter(d, b)})

\* C5.  The current window starts 29 days before the run date and ends
\* "today"; the previous window starts 59 and ends 30 days before the run
\* date; the previous window ends the day before the current one starts,
\* and each window has 30 days.
C5_DateWindows ==
    date_range_current # NoRangeCurrent =>
        /\ date_range_current.end_date = "today"
        /\ DaysFromTo(date_range_current.start_date, today) = 29 + 1
        /\ DaysFromTo(date_range_previous.start_date, today) = 59 + 1
        /\ DaysFromTo(date_range_previous.end_date, today) = 30 + 1
        /\ NextDay(date_range_previous.end_date)
              = date_range_current.start_date
        /\ DaysFromTo(date_range_previous.start_date,
                      date_range_previous.end_date) = 30

\* The windows of 1 March of a leap year: the current one starts on
\* 1 February and the previous one in the year before.
C5_Witness ==
    /\ today = <<2024, 3, 1>>
    /\ date_range_current.start_date = <<2024, 2, 1>>
    /\ date_range_previous.end_date = <<2024, 1, 31>>
    /\ date_range_previous.start_date = <<2024, 1, 2>>

\* The metric a card shows: users, sessions, average duration (the fourth
\* metric, on the third card), conversions (the third, on the fourth).
MetricOfCard == <<1, 2, 4, 3>>

\* C4.  Each card shows the current value of its metric and, as its delta,
\* the current value minus the previous value of the same metric, negative
\* when the metric fell; [100,150,10,125] against [80,140,8,95] gives the
\* deltas 20, 10, 2 and, on the duration card, "2min5sec" with the delta
\* "0min30sec".
C4_CardDeltas ==
    kpi_cols # <<>> =>
        /\ \A k \in 1..4 :
              LET i == MetricOfCard[k]
                  a == current_metrics[i]
                  b == prev_metrics[i]
              IN  IF i = 4
                  THEN /\ kpi_cols[k].value = format_duration(a)
                       /\ kpi_cols[k].delta = format_duration(a - b)
                  ELSE /\ kpi_cols[k].value = Grouped(a \div 2)
                       /\ kpi_cols[k].delta = Grouped((a - b) \div 2)
        /\ (/\ current_metrics = <<200, 300, 20, 250>>
            /\ prev_metrics = <<160, 280, 16, 190>>) =>
                /\ kpi_cols[1].delta = "20"
                /\ kpi_cols[2].delta = "10"
                /\ kpi_cols[4].delta = "2"
                /\ kpi_cols[3].value = "2min5sec"
                /\ kpi_cols[3].delta = "0min30sec"

\* Cards of a fall: fewer users than before (by more than a thousand), and
\* a shorter average duration.
C4_Witness ==
    /\ kpi_cols # <<>>
    /\ current_metrics[1] = 2 * 80 /\ prev_metrics[1] = 2 * 1200
    /\ kpi_cols[1].delta = "-1,120"
    /\ current_metrics[4] = 2 * 95 /\ prev_metrics[4] = 2 * 125
    /\ kpi_cols[3].delta = "-1min30sec"

\* The rows of the KPI response that belong to a date range.
RowsOf(range) ==
    {i \in DOMAIN response_kpi :
        response_kpi[i].dimension_values[1] = range}

\* A vector is that of a date range: the values of its row, the zero
\* vector when the response has no row for it.
VectorOf(range, v) ==
    IF RowsOf(range) = {} THEN v = ZeroMetrics
    ELSE \E i \in RowsOf(range) : v = MetricValues(response_kpi[i])

\* C1.  After the KPI stage the vector of a period without a row in the
\* response is [0,0,0,0], the vector of a period with a row holds the
\* values of that row, and no exception came out of the stage.
C1_ZeroDefaultPerPeriod ==
    pc = "details" =>
        /\ VectorOf("date_range_0", current_metrics)
        /\ VectorOf("date_range_1", prev_metrics)
        /\ errors = 0 /\ caught = 0

\* The external calls of a run, in their order.
CallOrder == <<"registry", "kpi", "details", "pages", "narrative">>

\* The calls made so far are consecutive calls of CallOrder, each once,
\* from the registry read or (the site list being cached) from the KPI
\* query on.
CallsInOrder ==
    \E skipped \in {0, 1} :
        /\ Len(calls) + skipped <= Len(CallOrder)
        /\ \A i \in DOMAIN calls : calls[i].call = CallOrder[i + skipped]

\* A failed call is the last call of its run, and the narrative is not
\* shown.
FailureEndsTheRun ==
    \A i \in DOMAIN calls :
        ~calls[i].ok => i = Len(calls) /\ pc = "done" /\ ~report

\* C6, as claimed.  The calls are made in order, each at most once; a
\* failed call is the last, it is caught once at the top level, one error
\* message is shown and the narrative is not.
C6_FailureCaughtAtTopLevel ==
    /\ CallsInOrder
    /\ FailureEndsTheRun
    /\ \A i \in DOMAIN calls :
          ~calls[i].ok => caught = 1 /\ errors = 1

\* C6, as amended.  The calls are made in order, each at most once; a
\* failed call is the last and the narrative is not shown.  A failed
\* query or narrative call is caught once at the top level, which shows
\* the one error message.  A failed registry read is caught inside
\* get_sites_data, not at the top level: it shows the one error message and
\* returns an empty list, and the run ends with the no-sites warning.
C6_FailureEndsRunWithOneError ==
    /\ CallsInOrder
    /\ FailureEndsTheRun
    /\ \A i \in DOMAIN calls :
          ~calls[i].ok =>
              /\ errors = 1
              /\ IF calls[i].call = "registry"
                 THEN caught = 0 /\ warnings = 1
                 ELSE caught = 1 /\ warnings = 0

\* A run whose five calls were made and whose narrative call failed, after
\* the cards were shown.
C6_Witness ==
    /\ Len(calls) = 5
    /\ \A i \in 1..4 : calls[i].ok
    /\ ~calls[5].ok
    /\ kpi_cols # <<>> /\ ~report
    /\ caught = 1 /\ errors = 1

\* The sheet without its first record (a row after the first row) of the
\* name; the sheet itself when no record has the name.
WithoutFirstNamed(sh, name) ==
    IF \E r \in 2..Len(sh) : sh[r][1] = name
    THEN DeleteRow(sh, CHOOSE r \in 2..Len(sh) :
                          /\ sh[r][1] = name
                          /\ \A q \in 2..(r - 1) : sh[q][1] # name)
    ELSE sh

\* C7.  A delete removes the first record whose name is the chosen name and
\* leaves every other row, the first row included, as it was.
C7_DeleteRemovesNamedRecord ==
    [][(message'.kind = "deleted" /\ sheet' # sheet) =>
          sheet' = WithoutFirstNamed(sheet, message'.name)]_vars

\* The names of the records.
RecordNames == [i \in DOMAIN Tail(sheet) |-> Tail(sheet)[i][1]]

\* C8.  Every record has a name, and no two records have the same name.
C8_NamesUniqueNonEmpty ==
    /\ \A i \in DOMAIN RecordNames : RecordNames[i] # ""
    /\ \A i, j \in DOMAIN RecordNames :
          i # j => RecordNames[i] # RecordNames[j]

\* C10.  The site list a dashboard run uses is the registry's records
\* whenever the registry is readable at that run.  (The sheet and its
\* readability change between runs only.)
C10_SitesAreCurrent ==
    (pc = "done" /\ readable) => sites.rows = Tail(sheet)

=============================================================================
